---- MODULE Spec2Model ----
(***************************************************************************)
(* ChainFlow AI Sheets: the App component's state (settings, headers,     *)
(* rows), its event handlers, the asynchronous executeGeneration chain and *)
(* the generation adapters of services/llmService.ts.                      *)
(*                                                                         *)
(* A text is a sequence of one-character strings.  Column and row ids are  *)
(* numbers: col-0, col-1, col-2 are 0, 1, 2, and an id built from          *)
(* Date.now() is a number past them that grows with the clock.  A cell's   *)
(* own id and a header's label are only rendered and are left out.         *)
(*                                                                         *)
(* executeGeneration is a useCallback closure over headers, rows and       *)
(* settings; its recursive calls go through the binding of the render that *)
(* created it, so a whole chain keeps the headers, rows and settings of    *)
(* the render in which the user event happened, while updateCell is a      *)
(* functional update that always acts on the current rows.                 *)
(***************************************************************************)
EXTENDS Integers, Sequences, FiniteSets, Bags, TLC

\* ---------------------------------------------------------------- bounds
MaxOps == 3          \* user events in one behaviour (also the clock's range)
MaxCols == 4         \* columns a sheet may grow to
MaxRows == 3         \* rows a sheet may grow to
MaxInFlight == 2     \* adapter calls awaited at the same time
MaxEditedRows == 1   \* the user types, commits and regenerates in the first rows

\* ------------------------------------------------------------- constants
DEFAULT_ROWS == 3
DEFAULT_COLS == 3

IDLE == "IDLE"
LOADING == "LOADING"
SUCCESS == "SUCCESS"
ERROR == "ERROR"

ProviderType_GEMINI == "GEMINI"
ProviderType_LOCAL == "LOCAL"

\* undefined: an absent errorMessage, an absent sourceColumnId, an absent
\* directInputVal
Undefined == "undefined"
NoColumn == -1
NoInput == <<Undefined>>

\* texts the user types and texts a provider answers
TypedTexts == {<<>>, <<" ">>, <<"a">>}
ReplyTexts == {<<>>, <<" ">>, <<"b">>}

SourceInvalidMsg == "Source column configuration invalid."
EmptyGeminiMsg == "Empty response from Gemini"
NetworkMsg == "Failed to fetch"
LocalStatusMsg == "Local LLM Error: 500 - body"

\* what the provider's endpoint does with one request
Responses ==
    {[kind |-> "neterr"], [kind |-> "status"]}
        \cup {[kind |-> "text", text |-> t] : t \in ReplyTexts}

VARIABLES settings, headers, rows, calls, clock

vars == <<settings, headers, rows, calls, clock>>

\* ------------------------------------------------------------ pure parts

\* String.prototype.trim
RECURSIVE TrimLeft(_)
TrimLeft(s) ==
    IF s # <<>> /\ Head(s) = " " THEN TrimLeft(Tail(s)) ELSE s

RECURSIVE TrimRight(_)
TrimRight(s) ==
    IF s # <<>> /\ s[Len(s)] = " " THEN TrimRight(SubSeq(s, 1, Len(s) - 1)) ELSE s

\* a check of the text as it is, with .trim() forgotten
TrimNothing(s) == s

Trim(s) == TrimRight(TrimLeft(s))

\* findIndex with a miss taken for the first column
findIndexOrFirst(hs, id) ==
    IF \E i \in DOMAIN hs : hs[i].id = id
    THEN CHOOSE i \in DOMAIN hs : hs[i].id = id /\ \A j \in 1..(i - 1) : hs[j].id # id
    ELSE 1

\* headers.findIndex(h => h.id === id), 1-based, 0 for -1
findIndex(hs, id) ==
    IF \E i \in DOMAIN hs : hs[i].id = id
    THEN CHOOSE i \in DOMAIN hs : hs[i].id = id /\ \A j \in 1..(i - 1) : hs[j].id # id
    ELSE 0

\* rows.find(r => r.id === rowId) as an index, 0 when there is none
findRow(rs, rowId) ==
    IF \E i \in DOMAIN rs : rs[i].id = rowId
    THEN CHOOSE i \in DOMAIN rs : rs[i].id = rowId /\ \A j \in 1..(i - 1) : rs[j].id # rowId
    ELSE 0

\* a merge that skips the fields an update gives as undefined, so that
\* `errorMessage: undefined` clears nothing
MergeDefined(cell, updates) ==
    [f \in DOMAIN cell |->
        IF f \in DOMAIN updates /\ ~(f = "errorMessage" /\ updates[f] = Undefined)
        THEN updates[f] ELSE cell[f]]

\* { ...cell, ...updates }
Merge(cell, updates) ==
    [f \in DOMAIN cell |-> IF f \in DOMAIN updates THEN updates[f] ELSE cell[f]]

updateCell(rs, rowId, colIndex, updates) ==
    [i \in DOMAIN rs |->
        IF rs[i].id # rowId THEN rs[i]
        ELSE [rs[i] EXCEPT !.cells =
                [j \in DOMAIN rs[i].cells |->
                    IF j = colIndex THEN Merge(rs[i].cells[j], updates)
                    ELSE rs[i].cells[j]]]]

\* the indices of the headers whose source is the column `id`, in header order
RECURSIVE dependentsFrom(_, _, _)
dependentsFrom(hs, id, i) ==
    IF i > Len(hs) THEN <<>>
    ELSE (IF hs[i].sourceColumnId = id THEN <<i>> ELSE <<>>)
             \o dependentsFrom(hs, id, i + 1)

\* every column that takes its input from `id` directly or through other
\* columns, in header order: the whole chain triggered at once
RECURSIVE reachFrom(_, _, _)
reachFrom(hs, ids, n) ==
    IF n = 0 THEN ids
    ELSE reachFrom(hs,
             ids \cup {hs[i].id : i \in {j \in DOMAIN hs : hs[j].sourceColumnId \in ids}},
             n - 1)

RECURSIVE dependentsAllFrom(_, _, _)
dependentsAllFrom(hs, ids, i) ==
    IF i > Len(hs) THEN <<>>
    ELSE (IF hs[i].sourceColumnId \in ids THEN <<i>> ELSE <<>>)
             \o dependentsAllFrom(hs, ids, i + 1)

dependentsTransitive(hs, id) == dependentsAllFrom(hs, reachFrom(hs, {id}, Len(hs)), 1)

\* dependents that also counts the column itself among its dependents
dependentsWithSelf(hs, id) ==
    dependentsFrom(hs, id, 1) \o SelectSeq([i \in DOMAIN hs |-> i], LAMBDA i : hs[i].id = id)

dependents(hs, id) == dependentsFrom(hs, id, 1)

EmptyCell == [value |-> <<>>, status |-> IDLE, errorMessage |-> Undefined]

\* ------------------------------------------------------------- adapters

generateLocal(resp) ==
    CASE resp.kind = "neterr" -> [ok |-> FALSE, message |-> NetworkMsg]
      [] resp.kind = "status" -> [ok |-> FALSE, message |-> LocalStatusMsg]
      [] OTHER -> [ok |-> TRUE, text |-> resp.text]

generateGemini(resp) ==
    CASE resp.kind = "text" /\ resp.text # <<>> -> [ok |-> TRUE, text |-> resp.text]
      [] resp.kind = "text" -> [ok |-> FALSE, message |-> EmptyGeminiMsg]
      [] OTHER -> [ok |-> FALSE, message |-> NetworkMsg]

generateContent(resp, provider) ==
    IF provider = ProviderType_LOCAL THEN generateLocal(resp) ELSE generateGemini(resp)

\* --------------------------------------------------- executeGeneration

\* The part of executeGeneration that runs before the await: `rs` are the
\* current rows (what updateCell acts on), hs/snapRows/provider the closure's
\* headers, rows and settings.  Gives the rows after it and the call it awaits.
executeGenerationStart(rs, hs, snapRows, provider, rowId, col, direct, prop, origin) ==
    LET none == [rows |-> rs, issued |-> {}]
    IN  IF col \notin DOMAIN hs \/ hs[col].isInput THEN none
        ELSE
        LET sourceColIndex == findIndex(hs, hs[col].sourceColumnId)
            r == findRow(snapRows, rowId)
            looked ==
                IF sourceColIndex \in DOMAIN snapRows[r].cells
                THEN snapRows[r].cells[sourceColIndex].value
                ELSE <<>>
            sourceValue == IF direct # NoInput THEN direct ELSE looked
        IN  IF direct = NoInput /\ sourceColIndex = 0
            THEN [rows |-> updateCell(rs, rowId, col,
                              [status |-> ERROR, errorMessage |-> SourceInvalidMsg]),
                  issued |-> {}]
            ELSE IF direct = NoInput /\ r = 0 THEN none
            ELSE IF Trim(sourceValue) = <<>> THEN none
            ELSE [rows |-> updateCell(rs, rowId, col,
                              [status |-> LOADING, errorMessage |-> Undefined]),
                  issued |-> {[row |-> rowId, col |-> col, input |-> sourceValue,
                               hs |-> hs, rows |-> snapRows, provider |-> provider,
                               prop |-> prop, origin |-> origin]}]

\* forEachDependent with the value left out of the call, so that every
\* dependent reads its source cell from the closure's rows
RECURSIVE forEachDependentLookup(_, _, _, _, _, _, _, _, _)
forEachDependentLookup(deps, rs, hs, snapRows, provider, rowId, value, prop, origin) ==
    IF deps = <<>> THEN [rows |-> rs, issued |-> {}]
    ELSE LET one == executeGenerationStart(rs, hs, snapRows, provider, rowId,
                                           Head(deps), NoInput, prop, origin)
             rest == forEachDependentLookup(Tail(deps), one.rows, hs, snapRows,
                                            provider, rowId, value, prop, origin)
         IN  [rows |-> rest.rows, issued |-> one.issued \cup rest.issued]

\* dependents.forEach(dep => executeGeneration(rowId, dep.index, value))
RECURSIVE forEachDependent(_, _, _, _, _, _, _, _, _)
forEachDependent(deps, rs, hs, snapRows, provider, rowId, value, prop, origin) ==
    IF deps = <<>> THEN [rows |-> rs, issued |-> {}]
    ELSE LET one == executeGenerationStart(rs, hs, snapRows, provider, rowId,
                                           Head(deps), value, prop, origin)
             rest == forEachDependent(Tail(deps), one.rows, hs, snapRows, provider,
                                      rowId, value, prop, origin)
         IN  [rows |-> rest.rows, issued |-> one.issued \cup rest.issued]

\* ------------------------------------------------------------------ state

InitHeaders ==
    << [id |-> 0, systemPrompt |-> "",
        sourceColumnId |-> NoColumn, isInput |-> TRUE],
       [id |-> 1,
        systemPrompt |-> "Summarize the input in one sentence.",
        sourceColumnId |-> 0, isInput |-> FALSE],
       [id |-> 2,
        systemPrompt |-> "Translate the summary to French.",
        sourceColumnId |-> 1, isInput |-> FALSE] >>

Init ==
    /\ settings = [provider |-> ProviderType_GEMINI]
    /\ headers = InitHeaders
    /\ rows = [i \in 1..DEFAULT_ROWS |->
                  [id |-> i - 1, cells |-> [j \in 1..DEFAULT_COLS |-> EmptyCell]]]
    /\ calls = EmptyBag
    /\ clock = 0

\* an id built from Date.now()
NewId == DEFAULT_ROWS + clock

Tick == clock < MaxOps /\ clock' = clock + 1

Issue(issued) ==
    /\ BagCardinality(calls) + Cardinality(issued) <= MaxInFlight
    /\ calls' = calls (+) SetToBag(issued)

\* ---------------------------------------------------------------- events

\* handleCellChange without the reset of the status
handleCellChangeKeepStatus(rowId, colIndex, newValue) ==
    /\ Tick
    /\ rows' = updateCell(rows, rowId, colIndex, [value |-> newValue])
    /\ UNCHANGED <<settings, headers, calls>>

handleCellChange(rowId, colIndex, newValue) ==
    /\ Tick
    /\ rows' = updateCell(rows, rowId, colIndex, [value |-> newValue, status |-> IDLE])
    /\ UNCHANGED <<settings, headers, calls>>

\* onBlur hands over the textarea's text, which is the cell's value
handleCellBlur(rowId, colIndex) ==
    LET value == rows[findRow(rows, rowId)].cells[colIndex].value
        out == forEachDependent(dependents(headers, headers[colIndex].id), rows,
                                headers, rows, settings.provider, rowId, value,
                                clock, "blur")
    IN  /\ Tick
        /\ rows' = out.rows
        /\ Issue(out.issued)
        /\ UNCHANGED <<settings, headers>>

\* regenerateCell that hands the target cell's own text over as the input
regenerateCellOwnValue(rowId, colIndex) ==
    LET out == executeGenerationStart(rows, headers, rows, settings.provider,
                                      rowId, colIndex,
                                      rows[findRow(rows, rowId)].cells[colIndex].value,
                                      clock, "regenerate")
    IN  /\ Tick
        /\ rows' = out.rows
        /\ Issue(out.issued)
        /\ UNCHANGED <<settings, headers>>

regenerateCell(rowId, colIndex) ==
    LET out == executeGenerationStart(rows, headers, rows, settings.provider,
                                      rowId, colIndex, NoInput, clock, "regenerate")
    IN  /\ Tick
        /\ rows' = out.rows
        /\ Issue(out.issued)
        /\ UNCHANGED <<settings, headers>>

\* generationSettled with the dependents started under the settings of the
\* moment instead of the closure's
generationSettledCurrentSettings(k, resp) ==
    LET result == generateContent(resp, k.provider)
    IN  IF result.ok
        THEN LET written == updateCell(rows, k.row, k.col,
                                [value |-> result.text, status |-> SUCCESS])
                 out == forEachDependent(dependents(k.hs, k.hs[k.col].id), written,
                                         k.hs, k.rows, settings.provider, k.row,
                                         result.text, k.prop, "chain")
             IN  /\ rows' = out.rows
                 /\ BagCardinality(calls) - 1 + Cardinality(out.issued) <= MaxInFlight
                 /\ calls' = (calls (-) SetToBag({k})) (+) SetToBag(out.issued)
                 /\ UNCHANGED <<settings, headers, clock>>
        ELSE /\ rows' = updateCell(rows, k.row, k.col,
                            [status |-> ERROR, errorMessage |-> result.message])
             /\ calls' = calls (-) SetToBag({k})
             /\ UNCHANGED <<settings, headers, clock>>

\* The part of executeGeneration after the await, for the call `k` and the
\* provider's response `resp`.
generationSettled(k, resp) ==
    LET result == generateContent(resp, k.provider)
    IN  IF result.ok
        THEN LET written == updateCell(rows, k.row, k.col,
                                [value |-> result.text, status |-> SUCCESS])
                 out == forEachDependent(dependents(k.hs, k.hs[k.col].id), written,
                                         k.hs, k.rows, k.provider, k.row, result.text,
                                         k.prop, "chain")
             IN  /\ rows' = out.rows
                 /\ BagCardinality(calls) - 1 + Cardinality(out.issued) <= MaxInFlight
                 /\ calls' = (calls (-) SetToBag({k})) (+) SetToBag(out.issued)
                 /\ UNCHANGED <<settings, headers, clock>>
        ELSE /\ rows' = updateCell(rows, k.row, k.col,
                            [status |-> ERROR, errorMessage |-> result.message])
             /\ calls' = calls (-) SetToBag({k})
             /\ UNCHANGED <<settings, headers, clock>>

handleHeaderChange(index, field, value) ==
    /\ Tick
    /\ headers' = [headers EXCEPT ![index] = Merge(headers[index], field :> value)]
    /\ UNCHANGED <<settings, rows, calls>>

addRow ==
    /\ Tick
    /\ Len(rows) < MaxRows
    /\ rows' = Append(rows, [id |-> NewId,
                             cells |-> [i \in DOMAIN headers |-> EmptyCell]])
    /\ UNCHANGED <<settings, headers, calls>>

removeRow(rowId) ==
    /\ Tick
    /\ rows' = SelectSeq(rows, LAMBDA r : r.id # rowId)
    /\ UNCHANGED <<settings, headers, calls>>

\* addColumn without the setRows that gives every row its new cell
addColumnHeaderOnly ==
    /\ Tick
    /\ Len(headers) < MaxCols
    /\ headers' = Append(headers,
            [id |-> NewId, systemPrompt |-> "New system instruction...",
             sourceColumnId |-> headers[Len(headers)].id, isInput |-> FALSE])
    /\ UNCHANGED <<settings, rows, calls>>

addColumn ==
    /\ Tick
    /\ Len(headers) < MaxCols
    /\ headers' = Append(headers,
            [id |-> NewId, systemPrompt |-> "New system instruction...",
             sourceColumnId |-> IF headers = <<>> THEN NoColumn
                                ELSE headers[Len(headers)].id,
             isInput |-> FALSE])
    /\ rows' = [i \in DOMAIN rows |->
                   [rows[i] EXCEPT !.cells = Append(rows[i].cells, EmptyCell)]]
    /\ UNCHANGED <<settings, calls>>

\* xs.filter((_, i) => i !== index)
without(xs, index) ==
    [i \in 1..(Len(xs) - (IF index \in DOMAIN xs THEN 1 ELSE 0)) |->
        IF i < index THEN xs[i] ELSE xs[i + 1]]

\* removeColumn without the guard of the input column
removeColumnUnguarded(index) ==
    /\ Tick
    /\ headers' = without(headers, index)
    /\ rows' = [i \in DOMAIN rows |->
                   [rows[i] EXCEPT !.cells = without(rows[i].cells, index)]]
    /\ UNCHANGED <<settings, calls>>

removeColumn(index) ==
    /\ Tick
    /\ IF index = 1
       THEN UNCHANGED <<headers, rows>>
       ELSE /\ headers' = without(headers, index)
            /\ rows' = [i \in DOMAIN rows |->
                           [rows[i] EXCEPT !.cells = without(rows[i].cells, index)]]
    /\ UNCHANGED <<settings, calls>>

\* SettingsModal.handleSave: onSave(localSettings) is setSettings
handleSave(newSettings) ==
    /\ Tick
    /\ settings' = newSettings
    /\ UNCHANGED <<headers, rows, calls>>

\* the rows the user works in
EditedRows == DOMAIN rows \cap 1..MaxEditedRows

Next ==
    \/ \E i \in EditedRows, c \in DOMAIN headers, v \in TypedTexts :
           handleCellChange(rows[i].id, c, v)
    \/ \E i \in EditedRows, c \in DOMAIN headers : handleCellBlur(rows[i].id, c)
    \/ \E i \in EditedRows, c \in DOMAIN headers :
           ~headers[c].isInput /\ regenerateCell(rows[i].id, c)
    \/ \E k \in BagToSet(calls), resp \in Responses : generationSettled(k, resp)
    \/ \E c \in DOMAIN headers, o \in DOMAIN headers :
           /\ ~headers[c].isInput
           /\ o # c
           /\ handleHeaderChange(c, "sourceColumnId", headers[o].id)
    \/ \E c \in DOMAIN headers :
           ~headers[c].isInput /\ handleHeaderChange(c, "systemPrompt", "Edited prompt")
    \/ addRow
    \/ \E i \in DOMAIN rows : removeRow(rows[i].id)
    \/ addColumn
    \/ \E c \in DOMAIN headers : removeColumn(c)
    \/ \E p \in {ProviderType_GEMINI, ProviderType_LOCAL} : handleSave([provider |-> p])

Spec == Init /\ [][Next]_vars

\* every adapter call is answered or fails in the end
Settle == \E k \in BagToSet(calls), resp \in Responses : generationSettled(k, resp)

SpecFair == Spec /\ WF_vars(Settle)

\* ----------------------------------------------------------------- claims

\* a text with nothing but spaces in it (the empty text included)
Blank(t) == \A n \in DOMAIN t : t[n] = " "

cellOf(rs, rowId, col) == rs[findRow(rs, rowId)].cells[col]

\* the step issues the call c: one more copy of it is awaited than `before` held
Issues(before, c) == CopiesIn(c, calls') > CopiesIn(c, before)

\* the step issues a call for (rowId, col) with exactly the input `text`
IssuesFor(before, rowId, col, text) ==
    \E c \in BagToSet(calls') :
        c.row = rowId /\ c.col = col /\ c.input = text /\ Issues(before, c)

DependentSet(hs, id) == {i \in DOMAIN hs : hs[i].sourceColumnId = id}

\* some header has the id
Resolves(hs, id) == \E j \in DOMAIN hs : hs[j].id = id

\* C1 as a step property, for the texts that Triggers(_) accepts: a commit of
\* the text v hands exactly v to every direct dependent; a call that succeeds
\* with r hands exactly r to every dependent of its column; and a call of a
\* chain is issued in no other step than the one in which the call for its
\* source column succeeded, with that step's result as its input.
PropagatesFresh(Triggers(_)) ==
    /\ \A i \in EditedRows, c \in DOMAIN headers :
           (handleCellBlur(rows[i].id, c) /\ Triggers(rows[i].cells[c].value))
               => \A d \in DependentSet(headers, headers[c].id) :
                      IssuesFor(calls, rows[i].id, d, rows[i].cells[c].value)
    /\ \A k \in BagToSet(calls), resp \in Responses :
           (/\ generationSettled(k, resp)
            /\ generateContent(resp, k.provider).ok
            /\ Triggers(generateContent(resp, k.provider).text))
               => \A d \in DependentSet(k.hs, k.hs[k.col].id) :
                      IssuesFor(calls (-) SetToBag({k}), k.row, d,
                                generateContent(resp, k.provider).text)
    /\ \A c \in BagToSet(calls') :
           (c.origin = "chain" /\ Issues(calls, c))
               => \E k \in BagToSet(calls), resp \in Responses :
                      /\ generationSettled(k, resp)
                      /\ generateContent(resp, k.provider).ok
                      /\ k.prop = c.prop
                      /\ k.row = c.row
                      /\ c.hs[c.col].sourceColumnId = k.hs[k.col].id
                      /\ c.input = generateContent(resp, k.provider).text

\* C1 (as claimed): propagation is transitive and uses the freshly produced
\* value: committing a non-empty value v on a cell leads to an adapter call for
\* each dependent with input exactly v, and a call that succeeds with a
\* non-empty result r leads to a call for each dependent with input exactly r,
\* never issued before the source's call has succeeded.
C1_Original == [][PropagatesFresh(LAMBDA t : t # <<>>)]_vars

\* C1 (amended): the same for every committed value v and result r that is not
\* blank, i.e. not empty after trimming; a whitespace-only text triggers nothing.
C1_PropagatesFresh == [][PropagatesFresh(LAMBDA t : ~Blank(t))]_vars

\* C1 witness: a call of a chain is awaited whose input is the value its source
\* column's cell has just succeeded with.
C1_Witness ==
    \E c \in BagToSet(calls) :
        /\ c.origin = "chain"
        /\ ~Blank(c.input)
        /\ findRow(rows, c.row) # 0
        /\ findIndex(headers, c.hs[c.col].sourceColumnId) # 0
        /\ LET src == cellOf(rows, c.row, findIndex(headers, c.hs[c.col].sourceColumnId))
           IN  src.status = SUCCESS /\ src.value = c.input

AllCells == {<<i, j>> \in (DOMAIN rows) \X (1..MaxCols + 1) : j \in DOMAIN rows[i].cells}

\* C2 (as claimed): whenever no adapter call is outstanding, no cell is pending.
C2_NoPendingAtRest ==
    calls = EmptyBag => \A p \in AllCells : rows[p[1]].cells[p[2]].status # LOADING

\* the columns that take their input, directly or through others, from `id`
RECURSIVE downstreamFrom(_, _, _)
downstreamFrom(hs, ids, n) ==
    IF n = 0 THEN ids
    ELSE downstreamFrom(hs,
             ids \cup {hs[i].id : i \in {j \in DOMAIN hs : hs[j].sourceColumnId \in ids}},
             n - 1)

Downstream(hs, id) ==
    downstreamFrom(hs, {hs[i].id : i \in DependentSet(hs, id)}, Len(hs))

\* C3 (as claimed): when the adapter call for a target cell fails, the cell of
\* the column the call was made for becomes failed with the adapter's message,
\* no call is issued, and every cell of the row in a column downstream of that
\* column keeps its value and status.
C3_FailureStaysLocal ==
    [][\A k \in BagToSet(calls), resp \in Responses :
          (generationSettled(k, resp) /\ ~generateContent(resp, k.provider).ok)
              => LET r == findRow(rows, k.row)
                     target == findIndex(headers, k.hs[k.col].id)
                 IN  /\ calls' = calls (-) SetToBag({k})
                     /\ (r # 0 /\ target # 0)
                           => /\ rows'[r].cells[target].status = ERROR
                              /\ rows'[r].cells[target].errorMessage
                                     = generateContent(resp, k.provider).message
                     /\ r # 0
                           => \A j \in DOMAIN headers :
                                  headers[j].id \in Downstream(headers, k.hs[k.col].id)
                                                       \ {k.hs[k.col].id}
                                      => /\ rows'[r].cells[j].value = rows[r].cells[j].value
                                         /\ rows'[r].cells[j].status = rows[r].cells[j].status
      ]_vars

\* C4 as a step property: a generation that regenerateCell starts for a column
\* whose source id matches no header marks the target cell failed with the
\* configuration message, leaves every other cell alone and awaits no call.
DanglingRegenerateFails ==
    \A i \in EditedRows, c \in DOMAIN headers :
        (/\ regenerateCell(rows[i].id, c)
         /\ ~headers[c].isInput
         /\ ~Resolves(headers, headers[c].sourceColumnId))
            => /\ calls' = calls
               /\ rows'[i].cells[c].status = ERROR
               /\ rows'[i].cells[c].errorMessage = SourceInvalidMsg
               /\ rows'[i].cells[c].value = rows[i].cells[c].value
               /\ \A p \in AllCells : p # <<i, c>> => rows'[p[1]].cells[p[2]] = rows[p[1]].cells[p[2]]

\* no step issues a call for a column whose source id matches no header
NoCallForDangling ==
    \A c \in BagToSet(calls') :
        Issues(calls, c) => Resolves(headers, c.hs[c.col].sourceColumnId)

\* C4 (as claimed): if the target column's source id matches no existing
\* header, generation for it marks the target cell failed with the
\* configuration message and no adapter call is made, however the generation
\* was triggered (regenerate, commit, recursive propagation).
C4_Original == [][DanglingRegenerateFails /\ NoCallForDangling]_vars

\* C4 (amended): the check is made where the source cell is looked up, i.e.
\* when generation is started without a direct input (regenerate): then the
\* target cell is marked failed with the configuration message and no adapter
\* call is made.
C4_DanglingRegenerateFails == [][DanglingRegenerateFails]_vars

\* C4 witness: a cell whose column's source matches no header carries the
\* configuration error.
C4_Witness ==
    \E p \in AllCells :
        /\ p[2] \in DOMAIN headers
        /\ ~Resolves(headers, headers[p[2]].sourceColumnId)
        /\ ~headers[p[2]].isInput
        /\ rows[p[1]].cells[p[2]].status = ERROR
        /\ rows[p[1]].cells[p[2]].errorMessage = SourceInvalidMsg

OtherCellsKept(i, c) ==
    /\ DOMAIN rows' = DOMAIN rows
    /\ \A n \in DOMAIN rows : DOMAIN rows'[n].cells = DOMAIN rows[n].cells /\ rows'[n].id = rows[n].id
    /\ \A p \in AllCells : p # <<i, c>> => rows'[p[1]].cells[p[2]] = rows[p[1]].cells[p[2]]

\* C5: when the input text of a generation is empty or whitespace-only, whether
\* it was handed over (commit, propagation of a result) or read from the source
\* cell (regenerate), no adapter call is made, the target cell keeps its value,
\* status and error detail, and no dependent is triggered.
C5_BlankInputDoesNothing ==
    [][/\ \A i \in EditedRows, c \in DOMAIN headers :
              (handleCellBlur(rows[i].id, c) /\ Blank(rows[i].cells[c].value))
                  => rows' = rows /\ calls' = calls
       /\ \A i \in EditedRows, c \in DOMAIN headers, sc \in DOMAIN headers :
              (/\ regenerateCell(rows[i].id, c)
               /\ ~headers[c].isInput
               /\ headers[sc].id = headers[c].sourceColumnId
               /\ Blank(rows[i].cells[sc].value))
                  => rows' = rows /\ calls' = calls
       /\ \A k \in BagToSet(calls), resp \in Responses :
              (/\ generationSettled(k, resp)
               /\ generateContent(resp, k.provider).ok
               /\ Blank(generateContent(resp, k.provider).text))
                  => /\ calls' = calls (-) SetToBag({k})
                     /\ OtherCellsKept(findRow(rows, k.row), k.col)
      ]_vars

\* C5 witness: a generated cell succeeded with a whitespace-only text, its
\* column has a dependent, and nothing was started for it.
C5_Witness ==
    \E p \in AllCells :
        /\ rows[p[1]].cells[p[2]].status = SUCCESS
        /\ rows[p[1]].cells[p[2]].value = <<" ">>
        /\ \E d \in DependentSet(headers, headers[p[2]].id) :
               rows[p[1]].cells[d].status = IDLE
        /\ calls = EmptyBag

\* C6: typing in a cell sets that cell's value to the typed text and its status
\* to idle, changes no other cell of any row, and starts no adapter call.
C6_EditIsLocal ==
    [][\A i \in EditedRows, c \in DOMAIN headers, v \in TypedTexts :
          handleCellChange(rows[i].id, c, v)
              => /\ calls' = calls
                 /\ headers' = headers
                 /\ rows'[i].cells[c].value = v
                 /\ rows'[i].cells[c].status = IDLE
                 /\ OtherCellsKept(i, c)
      ]_vars

\* C6 witness: a cell holds typed text and is idle while its row's generated
\* cell is pending, and the only call awaited is the one that made it pending.
C6_Witness ==
    \E i \in DOMAIN rows, c \in DOMAIN headers, d \in DOMAIN headers :
        /\ rows[i].cells[c].status = IDLE
        /\ rows[i].cells[c].value = <<" ">>
        /\ rows[i].cells[d].status = LOADING
        /\ BagCardinality(calls) = 1
        /\ \E k \in BagToSet(calls) : k.input = <<"a">> /\ k.hs[k.col].sourceColumnId = headers[c].id

\* C7 (as claimed): at no time are two adapter calls of the same propagation in
\* flight, even when a column has several direct dependents.
C7_Original ==
    \A c \in BagToSet(calls) :
        /\ CopiesIn(c, calls) = 1
        /\ \A e \in BagToSet(calls) : e.prop = c.prop => e = c

\* every column of hs has at most one direct dependent
Linear(hs) == \A j \in DOMAIN hs : Cardinality(DependentSet(hs, hs[j].id)) <= 1

\* C7 (amended): along a chain the calls of one propagation are issued one
\* after the other: when no column has more than one direct dependent, at most
\* one adapter call of a propagation is in flight at any time.
C7_SequentialAlongChain ==
    \A c \in BagToSet(calls) :
        Linear(c.hs)
            => /\ CopiesIn(c, calls) = 1
               /\ \A e \in BagToSet(calls) : e.prop = c.prop => e = c

\* C7 witness: the second call of a chain is in flight, alone in its
\* propagation.
C7_Witness ==
    \E c \in BagToSet(calls) :
        /\ c.origin = "chain"
        /\ Linear(c.hs)
        /\ \A e \in BagToSet(calls) : e.prop = c.prop => e = c

\* C8 (as claimed): a generation never marks a cell succeeded with an empty
\* value, because the adapter fails on an empty response for both providers.
C8_NoEmptySuccess ==
    \A p \in AllCells :
        rows[p[1]].cells[p[2]].status = SUCCESS => rows[p[1]].cells[p[2]].value # <<>>

Lockstep == \A i \in DOMAIN rows : Len(rows[i].cells) = Len(headers)

\* C9: rows and headers stay in lockstep: every row holds as many cells as
\* there are headers; add-column appends one idle empty cell to every row,
\* remove-column at index i removes exactly the cell at index i from every row,
\* and add-row creates one idle empty cell per current column.
C9_Lockstep ==
    /\ []Lockstep
    /\ [][/\ addColumn
              => /\ Len(headers') = Len(headers) + 1
                 /\ \A i \in DOMAIN rows : rows'[i].cells = Append(rows[i].cells, EmptyCell)
          /\ \A c \in DOMAIN headers :
                 (removeColumn(c) /\ c # 1)
                     => /\ Len(headers') = Len(headers) - 1
                        /\ \A i \in DOMAIN rows :
                               /\ Len(rows'[i].cells) = Len(rows[i].cells) - 1
                               /\ \A j \in DOMAIN rows'[i].cells :
                                      rows'[i].cells[j] =
                                          IF j < c THEN rows[i].cells[j]
                                          ELSE rows[i].cells[j + 1]
          /\ addRow
              => /\ Len(rows') = Len(rows) + 1
                 /\ rows'[Len(rows')].cells = [j \in DOMAIN headers |-> EmptyCell]
         ]_vars

\* C9 witness: columns were added and removed and a row was added, and a row
\* holds a generated value.
C9_Witness ==
    /\ Len(headers) # DEFAULT_COLS
    /\ \E j \in DOMAIN headers : headers[j].id >= DEFAULT_COLS
    /\ \E i \in DOMAIN rows : rows[i].id >= DEFAULT_ROWS
    /\ Lockstep

EntryFirst ==
    /\ headers # <<>>
    /\ headers[1].isInput
    /\ \A j \in DOMAIN headers : j # 1 => ~headers[j].isInput

\* C10: exactly one column is the entry column and it is the column at index
\* 0; remove-column with index 0 changes neither headers nor rows; every added
\* column is non-entry and its source is the id of the column that was last.
C10_EntryColumn ==
    /\ []EntryFirst
    /\ [][/\ removeColumn(1) => UNCHANGED <<headers, rows>>
          /\ addColumn
              => /\ ~headers'[Len(headers')].isInput
                 /\ headers'[Len(headers')].sourceColumnId = headers[Len(headers)].id
                 /\ SubSeq(headers', 1, Len(headers)) = headers
         ]_vars

\* C10 witness: a column was added after another one was removed, the second
\* column no longer reads the entry column, and the entry column is still first.
C10_Witness ==
    /\ Len(headers) = DEFAULT_COLS
    /\ headers[Len(headers)].id >= DEFAULT_COLS
    /\ headers[2].sourceColumnId # 0
    /\ headers[1].isInput

\* C11: a manual regenerate sends to the adapter the value that the source
\* column's cell of that row holds when the action is taken (looked up by the
\* source id in the current headers and rows), and a regenerate call that
\* succeeds hands its result to the dependents of its column.
C11_RegenerateReadsCurrent ==
    [][/\ \A i \in EditedRows, c \in DOMAIN headers, sc \in DOMAIN headers :
              (/\ regenerateCell(rows[i].id, c)
               /\ ~headers[c].isInput
               /\ headers[sc].id = headers[c].sourceColumnId)
                  => /\ ~Blank(rows[i].cells[sc].value)
                         => IssuesFor(calls, rows[i].id, c, rows[i].cells[sc].value)
                     /\ \A k \in BagToSet(calls') :
                            Issues(calls, k)
                                => /\ k.row = rows[i].id
                                   /\ k.col = c
                                   /\ k.input = rows[i].cells[sc].value
       /\ \A k \in BagToSet(calls), resp \in Responses :
              (/\ k.origin = "regenerate"
               /\ generationSettled(k, resp)
               /\ generateContent(resp, k.provider).ok
               /\ ~Blank(generateContent(resp, k.provider).text))
                  => \A d \in DependentSet(k.hs, k.hs[k.col].id) :
                         IssuesFor(calls (-) SetToBag({k}), k.row, d,
                                   generateContent(resp, k.provider).text)
      ]_vars

\* C11 witness: a regenerate call is awaited whose input is the text the
\* source cell holds, while the target cell itself holds another text.
C11_Witness ==
    \E k \in BagToSet(calls) :
        /\ k.origin = "regenerate"
        /\ findRow(rows, k.row) # 0
        /\ Resolves(headers, k.hs[k.col].sourceColumnId)
        /\ k.col \in DOMAIN headers
        /\ cellOf(rows, k.row, findIndex(headers, k.hs[k.col].sourceColumnId)).value = k.input
        /\ cellOf(rows, k.row, k.col).value # k.input
        /\ cellOf(rows, k.row, k.col).value # <<>>

\* C12 (as claimed): settings are read at the start of each generation call:
\* every call that starts after the settings were saved uses the saved
\* settings, also the calls of a chain that was in progress at the save.
C12_Original ==
    [][\A c \in BagToSet(calls') : Issues(calls, c) => c.provider = settings.provider]_vars

\* C12 (amended): settings are captured when the commit or regenerate that
\* starts a propagation is handled: the first calls use the settings of that
\* moment and every later call of the chain uses the same settings, whatever
\* was saved in between.
C12_SettingsPerChain ==
    [][/\ clock' # clock
          => \A c \in BagToSet(calls') : Issues(calls, c) => c.provider = settings.provider
       /\ \A k \in BagToSet(calls), resp \in Responses :
              generationSettled(k, resp)
                  => \A c \in BagToSet(calls') :
                         Issues(calls (-) SetToBag({k}), c) => c.provider = k.provider
      ]_vars

\* C12 witness: a call of a chain is awaited under other settings than the
\* saved ones.
C12_Witness ==
    \E c \in BagToSet(calls) : c.origin = "chain" /\ c.provider # settings.provider

\* no column of hs takes its input, directly or through others, from itself
Acyclic(hs) == \A j \in DOMAIN hs : hs[j].id \notin Downstream(hs, hs[j].id)

\* C13: when the source references form no cycle and every adapter call
\* completes, a propagation terminates: a call that succeeds issues exactly one
\* call for each direct dependent of its column and nothing else, a call that
\* fails issues none, no column has two calls of one propagation, and in the
\* end no call is outstanding; calls can go on for ever only for a cyclic
\* source graph.
C13_Terminates ==
    /\ [][\A k \in BagToSet(calls), resp \in Responses :
              (generationSettled(k, resp) /\ Acyclic(k.hs))
                  => /\ ~generateContent(resp, k.provider).ok
                         => calls' = calls (-) SetToBag({k})
                     /\ \A c \in BagToSet(calls') :
                            Issues(calls (-) SetToBag({k}), c)
                                => /\ c.prop = k.prop
                                   /\ c.row = k.row
                                   /\ c.hs = k.hs
                                   /\ c.col \in DependentSet(k.hs, k.hs[k.col].id)
                                   /\ CopiesIn(c, calls')
                                          = CopiesIn(c, calls (-) SetToBag({k})) + 1
         ]_vars
    /\ [](\A c \in BagToSet(calls), e \in BagToSet(calls) :
              (Acyclic(c.hs) /\ e.prop = c.prop /\ e.col = c.col)
                  => e = c /\ CopiesIn(c, calls) = 1)
    /\ (<>[](calls = EmptyBag)
            \/ []<>(\E c \in BagToSet(calls) : ~Acyclic(c.hs)))

\* C13 witness: the chain col-0 <- col-1 <- col-2 has run to its last
\* dependent and no call is outstanding.
C13_Witness ==
    /\ calls = EmptyBag
    /\ headers = InitHeaders
    /\ \E i \in DOMAIN rows :
           /\ rows[i].cells[1].value = <<"a">>
           /\ rows[i].cells[2].status = SUCCESS
           /\ rows[i].cells[3].status = SUCCESS
           /\ rows[i].cells[3].value = <<"b">>

\* C14 (as claimed): the completion of a call, success or failure, writes only
\* to the cell of the column the call was issued for: apart from the cells of
\* dependents that it sets pending, every cell that it changes lies in the
\* column whose id is the id of the call's target header.
C14_WritesOwnColumn ==
    [][\A k \in BagToSet(calls), resp \in Responses :
          generationSettled(k, resp)
              => \A i \in DOMAIN rows, j \in DOMAIN headers :
                     (/\ rows'[i].cells[j] # rows[i].cells[j]
                      /\ rows'[i].cells[j].status # LOADING)
                         => headers[j].id = k.hs[k.col].id
      ]_vars

\* C15 (as claimed): in every reachable state a cell carries an error message
\* only while its status is failed.
C15_Original ==
    \A p \in AllCells :
        rows[p[1]].cells[p[2]].errorMessage # Undefined
            => rows[p[1]].cells[p[2]].status = ERROR

\* C15 (amended): a pending cell never carries an error message, since the
\* start of a generation clears it; an idle or succeeded cell may still carry
\* the message of an earlier failure.
C15_PendingHasNoError ==
    \A p \in AllCells :
        rows[p[1]].cells[p[2]].status = LOADING
            => rows[p[1]].cells[p[2]].errorMessage = Undefined

\* C15 witness: after two overlapping calls for one cell, one failed and one
\* succeeded, the cell is succeeded and still carries the failure's message,
\* and the dependent that the success set pending carries none.
C15_Witness ==
    \E i \in DOMAIN rows, c \in DOMAIN headers, d \in DOMAIN headers :
        /\ rows[i].cells[c].status = SUCCESS
        /\ rows[i].cells[c].errorMessage # Undefined
        /\ headers[d].sourceColumnId = headers[c].id
        /\ rows[i].cells[d].status = LOADING
        /\ rows[i].cells[d].errorMessage = Undefined

====
